---- MODULE Spec2Model ----
(***************************************************************************)
(* TravelChatbot: the slot-filling conversation of the three handler       *)
(* variants (main.py TravelBookingAPI, api/index.py Handler, app.py         *)
(* TravelBookingAI) over models.TravelRequest and TravelAI._update_request. *)
(*                                                                         *)
(* Python values: an Optional[...] field is None (the empty tuple) or      *)
(* Some(v) (the one-element tuple <<v>>).  A calendar date is its day      *)
(* number; a date string of the oracle is the day number it parses to, or  *)
(* BadDate when strptime raises ValueError.                                *)
(***************************************************************************)
EXTENDS Integers, Sequences, FiniteSets, TLC

VARIABLES handler, sessions, login, turn

vars == <<handler, sessions, login, turn>>

(***************************************************************************)
(* Python values                                                           *)
(***************************************************************************)
None == <<>>

Some(v) == <<v>>

\* bool(x) of an Optional[str]: None and "" are falsy
TruthyStr(x) == x # None /\ x[1] # ""

\* bool(x) of an Optional[int] / Optional[float]: None and 0 are falsy
TruthyNum(x) == x # None /\ x[1] # 0

\* bool(x) of an Optional[date]: only None is falsy
TruthyDate(x) == x # None

(***************************************************************************)
(* models.TravelRequest                                                    *)
(***************************************************************************)
TravelRequest ==
    [origin |-> None, destination |-> None, departure_date |-> None,
     return_date |-> None, duration_days |-> None, passengers |-> 1,
     user_email |-> None, budget |-> None]

\* is_complete without user_email in its list
is_complete_no_email(r) ==
    /\ TruthyStr(r.origin)
    /\ TruthyStr(r.destination)
    /\ TruthyDate(r.departure_date)

is_complete(r) ==
    /\ TruthyStr(r.origin)
    /\ TruthyStr(r.destination)
    /\ TruthyDate(r.departure_date)
    /\ TruthyStr(r.user_email)

\* missing_fields with the destination test before the origin test
missing_fields_reordered(r) ==
    (IF ~TruthyStr(r.destination) THEN <<"destination">> ELSE <<>>)
    \o (IF ~TruthyStr(r.origin) THEN <<"origin">> ELSE <<>>)
    \o (IF ~TruthyDate(r.departure_date) THEN <<"departure_date">> ELSE <<>>)
    \o (IF ~TruthyStr(r.user_email) THEN <<"user_email">> ELSE <<>>)

missing_fields(r) ==
    (IF ~TruthyStr(r.origin) THEN <<"origin">> ELSE <<>>)
    \o (IF ~TruthyStr(r.destination) THEN <<"destination">> ELSE <<>>)
    \o (IF ~TruthyDate(r.departure_date) THEN <<"departure_date">> ELSE <<>>)
    \o (IF ~TruthyStr(r.user_email) THEN <<"user_email">> ELSE <<>>)

(***************************************************************************)
(* TravelAI._update_request                                                *)
(***************************************************************************)
\* the value a date string of the oracle has when strptime rejects it
BadDate == -1

\* the date keys of the patch loop with "update_data[key] = None" in place
\* of "continue" under except ValueError
PatchedDate_clear(old, new) ==
    IF new = None THEN old
    ELSE IF new[1] = BadDate THEN None
    ELSE new

\* the date keys of the patch loop without the "value is not None" test
PatchedDate_assign(old, new) ==
    IF new # None /\ new[1] = BadDate THEN old ELSE new

\* one key of the patch loop: a None value is skipped, a date string that
\* does not parse is skipped (except ValueError: continue), anything else
\* overwrites
PatchedDate(old, new) ==
    IF new = None THEN old
    ELSE IF new[1] = BadDate THEN old
    ELSE new

\* the patch loop without its "value is not None" test
PatchedValue_assign(old, new) == new

PatchedValue(old, new) == IF new = None THEN old ELSE new

PatchedPassengers(old, new) == IF new = None THEN old ELSE new[1]

ApplyPatch(cur, info) ==
    [origin |-> PatchedValue(cur.origin, info.origin),
     destination |-> PatchedValue(cur.destination, info.destination),
     departure_date |-> PatchedDate(cur.departure_date, info.departure_date),
     return_date |-> PatchedDate(cur.return_date, info.return_date),
     duration_days |-> PatchedValue(cur.duration_days, info.duration_days),
     passengers |-> PatchedPassengers(cur.passengers, info.passengers),
     user_email |-> PatchedValue(cur.user_email, info.user_email),
     budget |-> PatchedValue(cur.budget, info.budget)]

\* "Calculate missing fields if possible": an if / elif, so at most one runs
DeriveMissing(u) ==
    IF TruthyDate(u.departure_date) /\ TruthyNum(u.duration_days)
       /\ ~TruthyDate(u.return_date)
    THEN [u EXCEPT !.return_date =
              Some(u.departure_date[1] + u.duration_days[1])]
    ELSE IF TruthyDate(u.departure_date) /\ TruthyDate(u.return_date)
            /\ ~TruthyNum(u.duration_days)
    THEN [u EXCEPT !.duration_days =
              Some(u.return_date[1] - u.departure_date[1])]
    ELSE u

\* _update_request that calculates the missing fields from the request it
\* was given, before the patch loop
_update_request_derive_first(current_request, extracted_info) ==
    ApplyPatch(DeriveMissing(current_request), extracted_info)

_update_request(current_request, extracted_info) ==
    DeriveMissing(ApplyPatch(current_request, extracted_info))

\* a call that writes the merged fields into the object it was given
\* (setattr on current_request) and returns that object
CallUpdateRequest_setattr(current_request, extracted_info) ==
    LET request == _update_request(current_request, extracted_info)
    IN  [current_request |-> request, request |-> request]

\* one call of _update_request seen from its caller: the object passed in,
\* as the call leaves it, and the object returned.  The merge writes into
\* update_data, the dict made by model_dump() (a copy), and the result is a
\* TravelRequest built from that dict
CallUpdateRequest(current_request, extracted_info) ==
    [current_request |-> current_request,
     request |-> _update_request(current_request, extracted_info)]

\* a follow-up that never looks at the missing fields
generate_follow_up_question_done(r) ==
    "Great! I have all the information I need. Let me search for the best options for you."

\* TravelAI.generate_follow_up_question
generate_follow_up_question(r) ==
    LET missing == missing_fields(r)
        In(f) == \E i \in 1..Len(missing) : missing[i] = f
    IN  IF missing = <<>>
        THEN "Great! I have all the information I need. Let me search for the best options for you."
        ELSE IF In("origin") THEN "Where would you like to travel from?"
        ELSE IF In("destination") THEN "Where would you like to go?"
        ELSE IF In("departure_date") THEN "When would you like to depart?"
        ELSE IF In("user_email")
        THEN "What's your email address so I can send you the booking details?"
        ELSE IF ~TruthyDate(r.return_date) /\ ~TruthyNum(r.duration_days)
        THEN "How long would you like to stay? (e.g., '3 days' or 'return on Friday')"
        ELSE IF r.passengers = 1 THEN "How many travelers will there be?"
        ELSE IF ~TruthyNum(r.budget) THEN "Do you have a budget in mind for this trip?"
        ELSE "Is there anything else you'd like to specify for your trip?"

\* the re-prompt of the except branch of extract_travel_info
GenericReprompt ==
    "I'm sorry, I didn't understand that. Could you please tell me where you'd like to travel from and to?"

(***************************************************************************)
(* TravelAI.extract_travel_info.  reply is what the chat-completion call   *)
(* gives back for the user's message: ok = FALSE is any exception inside   *)
(* the try block (timeout, malformed JSON, missing key); otherwise the     *)
(* parsed JSON.                                                            *)
(***************************************************************************)
\* extract_travel_info with an except branch that returns no follow-up
\* question of its own
extract_travel_info_no_reprompt(current_request, reply) ==
    LET base == IF current_request = None THEN TravelRequest
                ELSE current_request[1]
    IN  IF reply.ok
        THEN [travel_request |-> _update_request(base, reply.extracted_info),
              is_complete |-> reply.is_complete,
              follow_up_question |-> reply.follow_up_question]
        ELSE [travel_request |-> base,
              is_complete |-> FALSE,
              follow_up_question |-> None]

extract_travel_info(current_request, reply) ==
    LET base == IF current_request = None THEN TravelRequest
                ELSE current_request[1]
    IN  IF reply.ok
        THEN [travel_request |-> _update_request(base, reply.extracted_info),
              is_complete |-> reply.is_complete,
              follow_up_question |-> reply.follow_up_question]
        ELSE [travel_request |-> base,
              is_complete |-> FALSE,
              follow_up_question |-> Some(GenericReprompt)]

(***************************************************************************)
(* SearchService.search_best_package.  world is what the search backend    *)
(* does for this call: "package", "none", or "raise" (an exception leaves  *)
(* the call).  The budget check comes before anything else.                *)
(***************************************************************************)
MinBudget == 100

TheTravelPackage == Some("TravelPackage")

search_best_package(request, world) ==
    IF TruthyNum(request.budget) /\ request.budget[1] < MinBudget
    THEN [raised |-> FALSE, package |-> None]
    ELSE IF world = "raise" THEN [raised |-> TRUE, package |-> None]
    ELSE IF world = "package" THEN [raised |-> FALSE, package |-> TheTravelPackage]
    ELSE [raised |-> FALSE, package |-> None]

(***************************************************************************)
(* EmailService.send_travel_package.  The body is built before any try:    *)
(* both _create_email_body and _create_no_results_email call               *)
(* request.departure_date.strftime, which raises on None.  Every other     *)
(* path ends in return True (OAuth, SMTP, or the console fallback).        *)
(* delivery is what the channels do for this call: "oauth" (the Gmail     *)
(* OAuth send succeeds), "smtp" (OAuth fails or is not in use and the SMTP *)
(* send succeeds), "none" (OAuth fails or is not in use, and SMTP raises   *)
(* or has no credentials).                                                 *)
(***************************************************************************)
Deliveries == {"oauth", "smtp", "none"}

send_travel_package(request, package, delivery) ==
    IF request.departure_date = None
    THEN [raised |-> TRUE, sent |-> FALSE, delivered |-> FALSE]
    ELSE IF delivery = "oauth"
    THEN [raised |-> FALSE, sent |-> TRUE, delivered |-> TRUE]
    ELSE IF delivery = "smtp"
    THEN [raised |-> FALSE, sent |-> TRUE, delivered |-> TRUE]
    ELSE [raised |-> FALSE, sent |-> TRUE, delivered |-> FALSE]

(***************************************************************************)
(* A turn in flight and what it did: where the handler stands (phase), its *)
(* local variables, the calls it made in order (log), what it returned.    *)
(***************************************************************************)
\* a call: its request argument, its package (the one search returned, the
\* one email was given), whether an exception left it, and for the email
\* call whether a channel delivered the message
Ev(op, req, pkg, raised) ==
    [op |-> op, req |-> req, pkg |-> pkg, raised |-> raised, delivered |-> FALSE]

ExtractEv(reply) == Ev("extract", None, None, ~reply.ok)

SearchEv(req, s) == Ev("search", Some(req), s.package, s.raised)

EmailEv(req, pkg, e) ==
    [Ev("email", Some(req), pkg, e.raised) EXCEPT !.delivered = e.delivered]

DeleteEv == Ev("delete", None, None, FALSE)

Response(type, message, session_id, package, email_sent) ==
    [type |-> type, message |-> message, session_id |-> session_id,
     package |-> package, email_sent |-> email_sent]

\* the call ended by an exception leaving it
Raised == Response("exception", None, None, None, None)

NullPatch ==
    [origin |-> None, destination |-> None, departure_date |-> None,
     return_date |-> None, duration_days |-> None, passengers |-> None,
     user_email |-> None, budget |-> None]

\* no turn yet, or the last input was not a chat turn
NoTurn ==
    [phase |-> "idle", sid |-> "", message |-> <<>>, current |-> None,
     oracle |-> "skipped", extracted_info |-> NullPatch,
     flag |-> FALSE, request |-> None, log |-> <<>>, resp |-> None,
     envelope |-> None, status |-> 200]

\* the handler has read the session and is about to call the oracle
Calling(session_id, message, current_request) ==
    [NoTurn EXCEPT !.phase = "extract", !.sid = session_id,
                   !.message = message, !.current = current_request]

\* the turn ends with a response
Responded(t, resp) == [t EXCEPT !.phase = "idle", !.resp = Some(resp)]

Outcome(store, t) == [sessions |-> store, turn |-> t]

\* a delete that empties the whole dict
Delete_all(store, id) == [i \in DOMAIN store |-> None]

Delete(store, id) == [store EXCEPT ![id] = None]

\* a put that writes the request under every key of the dict
Put_all(store, id, request) == [i \in DOMAIN store |-> Some(request)]

\* a put that keeps the entry the key already has (dict.setdefault)
Put_setdefault(store, id, request) ==
    IF store[id] = None THEN [store EXCEPT ![id] = Some(request)] ELSE store

Put(store, id, request) == [store EXCEPT ![id] = Some(request)]

\* A chat message is a sequence of chunks: " " is a run of whitespace, any
\* other chunk a run of non-whitespace text.  str.strip() drops the
\* whitespace chunks at both ends.
RECURSIVE lstrip(_)
lstrip(m) == IF m # <<>> /\ Head(m) = " " THEN lstrip(Tail(m)) ELSE m

RECURSIVE rstrip(_)
rstrip(m) ==
    IF m # <<>> /\ m[Len(m)] = " " THEN rstrip(SubSeq(m, 1, Len(m) - 1)) ELSE m

strip(message) == rstrip(lstrip(message))

\* the str a one-chunk message is
Text(m) == m[1]

(***************************************************************************)
(* main.py: TravelBookingAPI behind POST /api/chat                         *)
(***************************************************************************)
\* chat() up to the oracle call of process_message.  The HTTPException(400)
\* of the empty-message check is raised inside the try and re-raised as 500
\* by its except.
main_receive(store, message, session_id) ==
    IF strip(message) = <<>>
    THEN Outcome(store, [NoTurn EXCEPT !.sid = session_id, !.message = message,
                                       !.status = 500, !.resp = Some(Raised)])
    ELSE Outcome(store, Calling(session_id, message, store[session_id]))

\* process_message from the oracle's return to its decision
main_process_message(store, lg, t, reply) ==
    LET user_id == t.sid
        ai_result == extract_travel_info(t.current, reply)
        request == IF lg # None /\ ~TruthyStr(ai_result.travel_request.user_email)
                   THEN [ai_result.travel_request EXCEPT !.user_email = lg]
                   ELSE ai_result.travel_request
        store1 == Put(store, user_id, request)
        t1 == [t EXCEPT !.current = None,
                        !.oracle = IF reply.ok THEN "ok" ELSE "fail",
                        !.extracted_info = reply.extracted_info,
                        !.flag = ai_result.is_complete,
                        !.request = Some(request),
                        !.log = <<ExtractEv(reply)>>]
    IN  IF ai_result.is_complete /\ is_complete(request)
        THEN Outcome(store1, [t1 EXCEPT !.phase = "search"])
        ELSE LET follow_up ==
                     IF TruthyStr(ai_result.follow_up_question)
                     THEN ai_result.follow_up_question
                     ELSE Some(generate_follow_up_question(request))
             IN  Outcome(store1,
                         Responded([t1 EXCEPT !.envelope = Some(user_id)],
                                   Response("question", follow_up, Some(user_id),
                                            None, None)))

\* _handle_complete_request, then the ChatResponse of chat()
main_handle_complete_request(store, t, world, delivery) ==
    LET user_id == t.sid
        request == t.request[1]
        s == search_best_package(request, world)
        package == IF s.raised THEN None ELSE s.package
        e == send_travel_package(request, package, delivery)
        log2 == t.log \o <<SearchEv(request, s), EmailEv(request, package, e)>>
    IN  IF e.raised
        THEN Outcome(store, Responded([t EXCEPT !.log = log2, !.status = 500], Raised))
        ELSE Outcome(Delete(store, user_id),
                     Responded([t EXCEPT !.log = log2 \o <<DeleteEv>>,
                                         !.envelope = Some(user_id)],
                               Response("complete",
                                        Some(IF package # None THEN "found" ELSE "not found"),
                                        Some(user_id), package, Some(e.sent))))

(***************************************************************************)
(* api/index.py: Handler behind do_POST                                    *)
(***************************************************************************)
\* the text matched by ^[a-zA-Z0-9._%+-]+@[a-zA-Z0-9.-]+\.[a-zA-Z]{2,}$
EmailShaped == {"a@b.com"}

\* Handler._is_email_only: the pattern is matched against message.strip()
_is_email_only(message) ==
    Len(strip(message)) = 1 /\ strip(message)[1] \in EmailShaped

\* do_POST when reading or parsing the body raises: its except branch
\* answers with two calls of uuid4, one for the envelope and one for the
\* response
index_bad_request(store, body, id1, id2) ==
    Outcome(store,
            Responded([NoTurn EXCEPT !.message = body, !.envelope = Some(id1)],
                      Response("error", Some("error"), Some(id2), None, None)))

\* a bare-email branch that starts a new request for the address
index_receive_fresh(store, message, session_id) ==
    LET current_request == store[session_id]
    IN  IF _is_email_only(message) /\ current_request # None
           /\ ~TruthyStr(current_request[1].user_email)
        THEN LET request == [TravelRequest EXCEPT
                                 !.user_email = Some(Text(strip(message)))]
             IN  Outcome(Put(store, session_id, request),
                         [NoTurn EXCEPT !.phase = "search", !.sid = session_id,
                                        !.message = message,
                                        !.request = Some(request)])
        ELSE Outcome(store, Calling(session_id, message, current_request))

\* process_travel_request up to the oracle call, the bare-email branch
\* included (a TravelRequest object is always truthy)
index_receive(store, message, session_id) ==
    LET current_request == store[session_id]
    IN  IF _is_email_only(message) /\ current_request # None
           /\ ~TruthyStr(current_request[1].user_email)
        THEN LET request == [current_request[1] EXCEPT
                                 !.user_email = Some(Text(strip(message)))]
             IN  Outcome(Put(store, session_id, request),
                         [NoTurn EXCEPT !.phase = "search", !.sid = session_id,
                                        !.message = message,
                                        !.request = Some(request)])
        ELSE Outcome(store, Calling(session_id, message, current_request))

\* process_travel_request from the oracle's return to its decision
process_travel_request(store, t, reply) ==
    LET session_id == t.sid
        extraction_result == extract_travel_info(t.current, reply)
        travel_request == extraction_result.travel_request
        store1 == Put(store, session_id, travel_request)
        t1 == [t EXCEPT !.current = None,
                        !.oracle = IF reply.ok THEN "ok" ELSE "fail",
                        !.extracted_info = reply.extracted_info,
                        !.flag = extraction_result.is_complete,
                        !.request = Some(travel_request),
                        !.log = <<ExtractEv(reply)>>]
        asked == [t1 EXCEPT !.envelope = Some(session_id)]
    IN  IF ~extraction_result.is_complete
        THEN Outcome(store1,
                     Responded(asked,
                               Response("question", extraction_result.follow_up_question,
                                        Some(session_id), None, None)))
        ELSE IF ~TruthyStr(travel_request.user_email)
        THEN Outcome(store1,
                     Responded(asked,
                               Response("question",
                                        Some("Great! I have all the details I need. What's your email address so I can send you the travel package?"),
                                        Some(session_id), None, None)))
        ELSE Outcome(store1, [t1 EXCEPT !.phase = "search"])

\* the except branch of process_travel_request
index_error(store, t) ==
    Outcome(store, Responded([t EXCEPT !.envelope = Some(t.sid)],
                             Response("error", Some("error"), None, None, None)))

_complete_travel_request(store, t, world, delivery) ==
    LET session_id == t.sid
        travel_request == t.request[1]
        s == search_best_package(travel_request, world)
        log1 == t.log \o <<SearchEv(travel_request, s)>>
        e == send_travel_package(travel_request, s.package, delivery)
        log2 == log1 \o <<EmailEv(travel_request, s.package, e)>>
        done == [t EXCEPT !.envelope = Some(session_id)]
    IN  IF s.raised
        THEN index_error(store, [t EXCEPT !.log = log1])
        ELSE IF s.package = None
        THEN Outcome(store,
                     Responded([done EXCEPT !.log = log1],
                               Response("no_results", Some("not found"), None, None, None)))
        ELSE IF e.raised
        THEN index_error(store, [t EXCEPT !.log = log2])
        ELSE Outcome(Delete(store, session_id),
                     Responded([done EXCEPT !.log = log2 \o <<DeleteEv>>],
                               Response("success", Some("found"), None, s.package,
                                        Some(e.sent))))

(***************************************************************************)
(* app.py: TravelBookingAI behind run_interactive (responses are strings)  *)
(***************************************************************************)
DemoUser == "demo_user"

\* one line of input that is not a command: an empty line is skipped
app_receive(store, user_input) ==
    IF strip(user_input) = <<>>
    THEN Outcome(store, NoTurn)
    ELSE Outcome(store, Calling(DemoUser, user_input, store[DemoUser]))

app_process_message(store, lg, t, reply) ==
    LET user_id == t.sid
        ai_result == extract_travel_info(t.current, reply)
        request == IF lg # None /\ ~TruthyStr(ai_result.travel_request.user_email)
                   THEN [ai_result.travel_request EXCEPT !.user_email = lg]
                   ELSE ai_result.travel_request
        store1 == Put(store, user_id, request)
        t1 == [t EXCEPT !.current = None,
                        !.oracle = IF reply.ok THEN "ok" ELSE "fail",
                        !.extracted_info = reply.extracted_info,
                        !.flag = ai_result.is_complete,
                        !.request = Some(request),
                        !.log = <<ExtractEv(reply)>>]
    IN  IF ai_result.is_complete /\ is_complete(request)
        THEN Outcome(store1, [t1 EXCEPT !.phase = "search"])
        ELSE LET follow_up ==
                     IF TruthyStr(ai_result.follow_up_question)
                     THEN ai_result.follow_up_question
                     ELSE Some(generate_follow_up_question(request))
             IN  Outcome(store1,
                         Responded(t1, Response("text", follow_up, None, None, None)))

app_handle_complete_request(store, t, world, delivery) ==
    LET user_id == t.sid
        request == t.request[1]
        s == search_best_package(request, world)
        log1 == t.log \o <<SearchEv(request, s)>>
        e == send_travel_package(request, s.package, delivery)
        log2 == log1 \o <<EmailEv(request, s.package, e)>>
    IN  IF s.raised
        THEN Outcome(store, Responded([t EXCEPT !.log = log1], Raised))
        ELSE IF e.raised
        THEN Outcome(store, Responded([t EXCEPT !.log = log2], Raised))
        ELSE Outcome(Delete(store, user_id),
                     Responded([t EXCEPT !.log = log2 \o <<DeleteEv>>],
                               Response("text",
                                        Some(IF s.package # None THEN "found" ELSE "not found"),
                                        None, None, None)))

(***************************************************************************)
(* Inputs                                                                  *)
(***************************************************************************)
SessionIds == {"demo_user", "test-session-2"}

\* str(uuid.uuid4()): an identifier no stored session has
FreshIds(store) == {id \in SessionIds : store[id] = None}

Messages ==
    {<<" ">>, <<"Book a trip from Porto to London">>, <<" ", "a@b.com", " ">>}

\* the days the oracle's departure date may parse to are 1..MaxDay
MaxDay == 1

Patches ==
    {[NullPatch EXCEPT !.origin = o, !.destination = d, !.departure_date = dd,
                       !.user_email = e] :
        o \in {None, Some("Porto")}, d \in {None, Some("London")},
        dd \in {None} \cup {Some(n) : n \in 1..MaxDay},
        e \in {None, Some("a@b.com")}}

FailedReply ==
    [ok |-> FALSE, extracted_info |-> NullPatch, is_complete |-> FALSE,
     follow_up_question |-> None]

Replies ==
    {FailedReply} \cup
    {[ok |-> TRUE, extracted_info |-> p, is_complete |-> c, follow_up_question |-> q] :
        p \in Patches, c \in BOOLEAN, q \in {None, Some("oracle question")}}

Worlds == {"package", "none", "raise"}

LoginEmail == "customer@gmail.com"

\* request bodies that json.loads rejects
BadBodies == {<<"{">>}

\* the answer of the clear endpoint and of the 'clear' command
Cleared(session_id) ==
    Responded([NoTurn EXCEPT !.sid = session_id],
              Response("cleared", Some("Session cleared"), None, None, None))

(***************************************************************************)
(* The state machine: one handler variant runs (handler); a turn is        *)
(* received, the oracle answers, and a complete request is fulfilled.      *)
(***************************************************************************)
Init ==
    /\ handler \in {"main", "index", "app"}
    /\ sessions = [id \in SessionIds |-> None]
    /\ login = None
    /\ turn = NoTurn

Step(r) == sessions' = r.sessions /\ turn' = r.turn

\* POST /api/chat with the caller's session_id
MainChat ==
    /\ handler = "main" /\ turn.phase = "idle"
    /\ \E message \in Messages, session_id \in SessionIds :
          Step(main_receive(sessions, message, session_id))
    /\ UNCHANGED <<handler, login>>

\* POST /api/chat without session_id: uuid4 makes one
MainChatNew ==
    /\ handler = "main" /\ turn.phase = "idle"
    /\ \E message \in Messages, session_id \in FreshIds(sessions) :
          Step(main_receive(sessions, message, session_id))
    /\ UNCHANGED <<handler, login>>

MainExtract ==
    /\ handler = "main" /\ turn.phase = "extract"
    /\ \E reply \in Replies : Step(main_process_message(sessions, login, turn, reply))
    /\ UNCHANGED <<handler, login>>

MainFulfil ==
    /\ handler = "main" /\ turn.phase = "search"
    /\ \E world \in Worlds, delivery \in Deliveries :
          Step(main_handle_complete_request(sessions, turn, world, delivery))
    /\ UNCHANGED <<handler, login>>

\* DELETE /api/session/{session_id}
MainClearSession ==
    /\ handler = "main" /\ turn.phase = "idle"
    /\ \E session_id \in SessionIds :
          Step(Outcome(Delete(sessions, session_id), Cleared(session_id)))
    /\ UNCHANGED <<handler, login>>

IndexPost ==
    /\ handler = "index" /\ turn.phase = "idle"
    /\ \E message \in Messages, session_id \in SessionIds :
          Step(index_receive(sessions, message, session_id))
    /\ UNCHANGED <<handler, login>>

IndexPostNew ==
    /\ handler = "index" /\ turn.phase = "idle"
    /\ \E message \in Messages, session_id \in FreshIds(sessions) :
          Step(index_receive(sessions, message, session_id))
    /\ UNCHANGED <<handler, login>>

\* POST /api/chat with a body that does not parse
IndexBadPost ==
    /\ handler = "index" /\ turn.phase = "idle"
    /\ \E body \in BadBodies, id1 \in FreshIds(sessions), id2 \in FreshIds(sessions) :
          id1 # id2 /\ Step(index_bad_request(sessions, body, id1, id2))
    /\ UNCHANGED <<handler, login>>

IndexExtract ==
    /\ handler = "index" /\ turn.phase = "extract"
    /\ \E reply \in Replies : Step(process_travel_request(sessions, turn, reply))
    /\ UNCHANGED <<handler, login>>

IndexFulfil ==
    /\ handler = "index" /\ turn.phase = "search"
    /\ \E world \in Worlds, delivery \in Deliveries :
          Step(_complete_travel_request(sessions, turn, world, delivery))
    /\ UNCHANGED <<handler, login>>

AppInput ==
    /\ handler = "app" /\ turn.phase = "idle"
    /\ \E user_input \in Messages : Step(app_receive(sessions, user_input))
    /\ UNCHANGED <<handler, login>>

AppExtract ==
    /\ handler = "app" /\ turn.phase = "extract"
    /\ \E reply \in Replies : Step(app_process_message(sessions, login, turn, reply))
    /\ UNCHANGED <<handler, login>>

AppFulfil ==
    /\ handler = "app" /\ turn.phase = "search"
    /\ \E world \in Worlds, delivery \in Deliveries :
          Step(app_handle_complete_request(sessions, turn, world, delivery))
    /\ UNCHANGED <<handler, login>>

\* the 'clear' command
AppClear ==
    /\ handler = "app" /\ turn.phase = "idle"
    /\ Step(Outcome(Delete(sessions, DemoUser), Cleared(DemoUser)))
    /\ UNCHANGED <<handler, login>>

\* the customer logs in with Gmail (app.py 'login'; main.py customer_login)
Login ==
    /\ handler \in {"main", "app"} /\ turn.phase = "idle"
    /\ login = None
    /\ login' = Some(LoginEmail)
    /\ turn' = NoTurn
    /\ UNCHANGED <<handler, sessions>>

Logout ==
    /\ handler \in {"main", "app"} /\ turn.phase = "idle"
    /\ login # None
    /\ login' = None
    /\ turn' = NoTurn
    /\ UNCHANGED <<handler, sessions>>

Next ==
    \/ MainChat
    \/ MainChatNew
    \/ MainExtract
    \/ MainFulfil
    \/ MainClearSession
    \/ IndexPost
    \/ IndexPostNew
    \/ IndexBadPost
    \/ IndexExtract
    \/ IndexFulfil
    \/ AppInput
    \/ AppExtract
    \/ AppFulfil
    \/ AppClear
    \/ Login
    \/ Logout

Spec == Init /\ [][Next]_vars

(***************************************************************************)
(* Overlapping requests.  api/index.py's Handler is a BaseHTTPRequestHandler: *)
(* the server constructs one Handler per request, and all of them share    *)
(* the module-level SESSIONS dict.  Under a server that serves requests    *)
(* on threads, two requests are in flight at once; each blocks in the      *)
(* chat-completion call between its SESSIONS.get and its SESSIONS[...] =.  *)
(* No lock is taken anywhere.  turn is here one turn record per thread,    *)
(* and each thread serves one request.                                     *)
(***************************************************************************)
Threads == {1, 2}

OverlapInit ==
    /\ handler = "index"
    /\ sessions = [id \in SessionIds |-> None]
    /\ login = None
    /\ turn = [th \in Threads |-> NoTurn]

OverlapStep(th, r) ==
    /\ sessions' = r.sessions
    /\ turn' = [turn EXCEPT ![th] = r.turn]

\* the thread's request arrives: do_POST to the oracle call
OverlapPost(th) ==
    /\ turn[th] = NoTurn
    /\ \E message \in Messages, session_id \in SessionIds :
          OverlapStep(th, index_receive(sessions, message, session_id))
    /\ UNCHANGED <<handler, login>>

\* the thread's oracle call returns
OverlapExtract(th) ==
    /\ turn[th].phase = "extract"
    /\ \E reply \in Replies :
          OverlapStep(th, process_travel_request(sessions, turn[th], reply))
    /\ UNCHANGED <<handler, login>>

OverlapFulfil(th) ==
    /\ turn[th].phase = "search"
    /\ \E world \in Worlds, delivery \in Deliveries :
          OverlapStep(th, _complete_travel_request(sessions, turn[th], world, delivery))
    /\ UNCHANGED <<handler, login>>

OverlapNext ==
    \E th \in Threads :
        \/ OverlapPost(th)
        \/ OverlapExtract(th)
        \/ OverlapFulfil(th)

SpecOverlap == OverlapInit /\ [][OverlapNext]_vars

(***************************************************************************)
(* One conversation after another on one session id, with an oracle and a  *)
(* user that cooperate: the oracle call always returns, its is_complete is *)
(* is_complete() of the merged request, and the patch carries the first    *)
(* missing required field, the one the follow-up question asks for.  The   *)
(* search backend and the mail channels are left free.  A request that has *)
(* arrived is handled to its response, and the user answers each response, *)
(* hence the weak fairness on the steps.                                   *)
(***************************************************************************)
LiveMessages == {m \in Messages : strip(m) # <<>>}

CooperativeReplies(current_request) ==
    LET base == IF current_request = None THEN TravelRequest
                ELSE current_request[1]
        missing == missing_fields(base)
    IN  {[ok |-> TRUE, extracted_info |-> p,
          is_complete |-> is_complete(_update_request(base, p)),
          follow_up_question |-> q] :
            p \in {x \in Patches : missing # <<>> => x[missing[1]] # None},
            q \in {None, Some("oracle question")}}

LiveInit ==
    /\ handler \in {"main", "index", "app"}
    /\ sessions = [id \in SessionIds |-> None]
    /\ login = None
    /\ turn = NoTurn

\* the user's next message on the session
LivePost ==
    /\ turn.phase = "idle"
    /\ \E message \in LiveMessages :
          Step(IF handler = "main" THEN main_receive(sessions, message, DemoUser)
               ELSE IF handler = "index"
               THEN index_receive(sessions, message, DemoUser)
               ELSE app_receive(sessions, message))
    /\ UNCHANGED <<handler, login>>

\* the oracle call returns
LiveExtract ==
    /\ turn.phase = "extract"
    /\ \E reply \in CooperativeReplies(turn.current) :
          Step(IF handler = "main"
               THEN main_process_message(sessions, login, turn, reply)
               ELSE IF handler = "index"
               THEN process_travel_request(sessions, turn, reply)
               ELSE app_process_message(sessions, login, turn, reply))
    /\ UNCHANGED <<handler, login>>

\* search and email
LiveFulfil ==
    /\ turn.phase = "search"
    /\ \E world \in Worlds, delivery \in Deliveries :
          Step(IF handler = "main"
               THEN main_handle_complete_request(sessions, turn, world, delivery)
               ELSE IF handler = "index"
               THEN _complete_travel_request(sessions, turn, world, delivery)
               ELSE app_handle_complete_request(sessions, turn, world, delivery))
    /\ UNCHANGED <<handler, login>>

LiveNext ==
    \/ LivePost
    \/ LiveExtract
    \/ LiveFulfil

SpecLive == LiveInit /\ [][LiveNext]_vars /\ WF_vars(LiveNext)

(***************************************************************************)
(* main.py and api/index.py side by side: each has its own session store   *)
(* and both get the same requests, the same oracle replies and the same    *)
(* search and mail outcomes.  sessions and turn hold one value per handler.*)
(* Nobody is logged in, and all requests carry the same session id.        *)
(***************************************************************************)
PairInit ==
    /\ handler = "pair"
    /\ sessions = [h \in {"main", "index"} |-> [id \in {DemoUser} |-> None]]
    /\ login = None
    /\ turn = [h \in {"main", "index"} |-> NoTurn]

PairStep(m, i) ==
    /\ sessions' = [main |-> m.sessions, index |-> i.sessions]
    /\ turn' = [main |-> m.turn, index |-> i.turn]

\* the same POST /api/chat arrives at both
PairPost ==
    /\ turn.main.phase = "idle" /\ turn.index.phase = "idle"
    /\ \E message \in Messages, session_id \in {DemoUser} :
          PairStep(main_receive(sessions.main, message, session_id),
                   index_receive(sessions.index, message, session_id))
    /\ UNCHANGED <<handler, login>>

\* the oracle returns the same reply to each handler that called it
PairExtract ==
    /\ turn.main.phase = "extract" \/ turn.index.phase = "extract"
    /\ \E reply \in Replies :
          PairStep(IF turn.main.phase = "extract"
                   THEN main_process_message(sessions.main, login, turn.main, reply)
                   ELSE Outcome(sessions.main, turn.main),
                   IF turn.index.phase = "extract"
                   THEN process_travel_request(sessions.index, turn.index, reply)
                   ELSE Outcome(sessions.index, turn.index))
    /\ UNCHANGED <<handler, login>>

\* search and mail do the same for each handler that fulfils
PairFulfil ==
    /\ turn.main.phase # "extract" /\ turn.index.phase # "extract"
    /\ turn.main.phase = "search" \/ turn.index.phase = "search"
    /\ \E world \in Worlds, delivery \in Deliveries :
          PairStep(IF turn.main.phase = "search"
                   THEN main_handle_complete_request(sessions.main, turn.main,
                                                     world, delivery)
                   ELSE Outcome(sessions.main, turn.main),
                   IF turn.index.phase = "search"
                   THEN _complete_travel_request(sessions.index, turn.index,
                                                 world, delivery)
                   ELSE Outcome(sessions.index, turn.index))
    /\ UNCHANGED <<handler, login>>

PairNext ==
    \/ PairPost
    \/ PairExtract
    \/ PairFulfil

SpecPair == PairInit /\ [][PairNext]_vars

(***************************************************************************)
(* SearchService.search_best_package with its prices, on its own.  Money   *)
(* is counted in cents; the budget of a request is in whole euros.         *)
(* use_mock is the configuration flag, authenticated what _authenticate    *)
(* returns, offer the price of the first flight offer of the Amadeus reply *)
(* (None: no offer, a status other than 200, or an exception, which        *)
(* _search_flight catches).  sessions holds the request under DemoUser,    *)
(* turn the last call and the package it returned.                         *)
(***************************************************************************)
Cents(euros) == euros * 100

\* base_flight_price = 89.99
BaseFlightPrice == 8999

\* price_per_night = 65.00
PricePerNight == 6500

\* nights = request.duration_days or 3
DefaultNights == 3

_get_mock_accommodation(request) ==
    LET nights == IF TruthyNum(request.duration_days)
                  THEN request.duration_days[1] ELSE DefaultNights
    IN  [price_per_night |-> PricePerNight, total_price |-> PricePerNight * nights]

TravelPackage(flight, accommodation, total_price) ==
    Some([flight |-> flight, accommodation |-> accommodation,
          total_price |-> total_price])

_get_mock_package(request) ==
    IF TruthyNum(request.budget) /\ request.budget[1] < MinBudget
    THEN None
    ELSE LET flight == [price |-> BaseFlightPrice]
             accommodation == _get_mock_accommodation(request)
             total_price == flight.price + accommodation.total_price
         IN  IF TruthyNum(request.budget) /\ total_price > Cents(request.budget[1])
             THEN None
             ELSE TravelPackage(Some(flight), Some(accommodation), total_price)

\* the budget filter of _parse_flight
_parse_flight(price, request) ==
    IF TruthyNum(request.budget) /\ price > Cents(request.budget[1])
    THEN None
    ELSE Some([price |-> price])

_search_flight(request, offer) ==
    IF offer = None THEN None ELSE _parse_flight(offer[1], request)

\* _search_accommodation: mock data on the live path too
_search_accommodation(request) == Some(_get_mock_accommodation(request))

SearchService_search_best_package(request, use_mock, authenticated, offer) ==
    IF TruthyNum(request.budget) /\ request.budget[1] < MinBudget
    THEN None
    ELSE IF use_mock \/ ~authenticated
    THEN _get_mock_package(request)
    ELSE LET flight == _search_flight(request, offer)
             accommodation == _search_accommodation(request)
         IN  IF flight = None /\ accommodation = None
             THEN None
             ELSE TravelPackage(flight, accommodation,
                                (IF flight # None THEN flight[1].price ELSE 0)
                                + (IF accommodation # None
                                   THEN accommodation[1].total_price ELSE 0))

\* budgets in euros, around the minimum and around the mock package's price
SearchBudgets == {None, Some(0), Some(50), Some(99), Some(100), Some(150),
                  Some(284), Some(285), Some(400)}

SearchDurations == {None, Some(0), Some(1), Some(3), Some(5)}

\* prices of the first flight offer, in cents
FlightOffers == {None, Some(4500), Some(12000), Some(30000)}

SearchRequests ==
    {[TravelRequest EXCEPT !.origin = Some("Porto"), !.destination = Some("London"),
                           !.departure_date = Some(1),
                           !.user_email = Some("a@b.com"),
                           !.duration_days = n, !.budget = b] :
        n \in SearchDurations, b \in SearchBudgets}

NoSearch ==
    [phase |-> "idle", use_mock |-> TRUE, authenticated |-> FALSE,
     offer |-> None, package |-> None]

SearchInit ==
    /\ handler = "search_service"
    /\ login = None
    /\ \E request \in SearchRequests :
          sessions = [id \in SessionIds |->
                         IF id = DemoUser THEN Some(request) ELSE None]
    /\ turn = NoSearch

SearchBestPackage ==
    /\ turn.phase = "idle"
    /\ \E use_mock \in BOOLEAN, authenticated \in BOOLEAN, offer \in FlightOffers :
          turn' = [phase |-> "searched", use_mock |-> use_mock,
                   authenticated |-> authenticated, offer |-> offer,
                   package |-> SearchService_search_best_package(
                                   sessions[DemoUser][1], use_mock,
                                   authenticated, offer)]
    /\ UNCHANGED <<handler, sessions, login>>

\* the package goes back to the caller; the next search is for another
\* request
NextSearch ==
    /\ turn.phase = "searched"
    /\ \E request \in SearchRequests :
          sessions' = [sessions EXCEPT ![DemoUser] = Some(request)]
    /\ turn' = NoSearch
    /\ UNCHANGED <<handler, login>>

SearchNext ==
    \/ SearchBestPackage
    \/ NextSearch

SpecSearch == SearchInit /\ [][SearchNext]_vars

(***************************************************************************)
(* TravelAI._update_request on its own: a request is constructed and then  *)
(* updated with one extracted_info after another.  turn holds the last     *)
(* call: the request it was given (current), the extracted_info, and the   *)
(* request it returned (request).                                          *)
(***************************************************************************)
\* the days a date string of the oracle may parse to are 1..MaxDate
MaxDate == 2

MergeDates == {None} \cup {Some(n) : n \in 1..MaxDate}

MergePatches ==
    {[NullPatch EXCEPT !.origin = o, !.destination = d, !.departure_date = dd,
                       !.return_date = rd, !.duration_days = n,
                       !.user_email = e] :
        o \in {None, Some(""), Some("Porto")}, d \in {None, Some("London")},
        dd \in MergeDates, rd \in MergeDates,
        n \in {None, Some(0), Some(1)},
        e \in {None, Some("a@b.com")}}

\* patches with a date string that does not parse, next to other values
BadDatePatches ==
    {[NullPatch EXCEPT !.origin = Some("Porto"), !.departure_date = dd,
                       !.return_date = rd, !.duration_days = n] :
        dd \in {None, Some(BadDate), Some(1)},
        rd \in {None, Some(BadDate), Some(1)},
        n \in {None, Some(1)}}

\* a patch that carries nothing but a passenger count
PassengerPatches == {[NullPatch EXCEPT !.passengers = Some(n)] : n \in {0}}

\* TravelRequest(), or a request that has its optional preferences
NewRequests ==
    {TravelRequest, [TravelRequest EXCEPT !.passengers = 2, !.budget = Some(500)]}

MergeInit ==
    /\ handler = "travel_ai"
    /\ sessions \in {Put([id \in SessionIds |-> None], DemoUser, r) : r \in NewRequests}
    /\ login = None
    /\ turn = NoTurn

UpdateRequest ==
    /\ turn.phase = "idle"
    /\ \E extracted_info \in MergePatches \cup BadDatePatches \cup PassengerPatches :
          LET call == CallUpdateRequest(sessions[DemoUser][1], extracted_info)
          IN  /\ sessions' = Put(sessions, DemoUser, call.request)
              /\ turn' = [phase |-> "merged",
                          current |-> Some(call.current_request),
                          extracted_info |-> extracted_info,
                          request |-> Some(call.request)]
    /\ UNCHANGED <<handler, login>>

\* current_request or TravelRequest(): the conversation starts over
NewRequest ==
    /\ turn.phase = "merged"
    /\ \E r \in NewRequests : sessions' = Put(sessions, DemoUser, r)
    /\ turn' = NoTurn
    /\ UNCHANGED <<handler, login>>

\* the updated request goes back to the caller, who keeps it for the next call
ReturnRequest ==
    /\ turn.phase = "merged"
    /\ turn' = NoTurn
    /\ UNCHANGED <<handler, sessions, login>>

MergeNext ==
    \/ UpdateRequest
    \/ ReturnRequest
    \/ NewRequest

SpecMerge == MergeInit /\ [][MergeNext]_vars

(***************************************************************************)
(* Properties                                                              *)
(***************************************************************************)
\* the calls of the turn, in order
Ops(log) == [i \in 1..Len(log) |-> log[i].op]

Called(op) == \E i \in 1..Len(turn.log) : turn.log[i].op = op

\* the calls of the turn that are not the oracle call
RECURSIVE FulfilCalls(_)
FulfilCalls(log) ==
    IF log = <<>> THEN <<>>
    ELSE IF Head(log).op = "extract" THEN FulfilCalls(Tail(log))
    ELSE <<Head(log)>> \o FulfilCalls(Tail(log))

\* the turn has ended with a response
TurnEnded == turn.phase = "idle" /\ turn.resp # None

\* the turn went into fulfilment
Fulfilling == turn.phase = "search" \/ Called("search")

\* the oracle call of the turn returned a patch, which was merged
OracleAnswered == turn.request # None /\ turn.oracle = "ok"

\* the bare-email branch was taken: no oracle call, straight to fulfilment
ShortcutFired == turn.request # None /\ turn.oracle = "skipped"

\* origin, destination and departure date are present
HasTrip(r) ==
    TruthyStr(r.origin) /\ TruthyStr(r.destination) /\ TruthyDate(r.departure_date)

\* C1: in a turn that went through the extraction oracle, a merged request
\* that is complete is fulfilled, whatever the oracle's is_complete flag says.
C1_CompleteRequestIsFulfilled ==
    (OracleAnswered /\ is_complete(turn.request[1])) => Fulfilling

\* C2: whenever search_best_package is about to be called or has been called,
\* its request has origin, destination, departure date and email.
C2_SearchOnlyWithCompleteRequest ==
    /\ turn.phase = "search" => is_complete(turn.request[1])
    /\ \A i \in 1..Len(turn.log) :
          turn.log[i].op = "search" => is_complete(turn.log[i].req[1])

\* the search call of the turn returned (a package or None): no exception
SearchReturned ==
    \E i \in 1..Len(turn.log) : turn.log[i].op = "search" /\ ~turn.log[i].raised

\* C3: a turn that fulfilled a complete request (its search returned) made
\* exactly the calls search, email, delete, in this order, the email with the
\* request and the package of the search.
C3_SearchThenEmailThenDelete ==
    (TurnEnded /\ SearchReturned /\ is_complete(turn.request[1])) =>
        LET f == FulfilCalls(turn.log)
        IN  /\ Ops(f) = <<"search", "email", "delete">>
            /\ f[2].req = f[1].req
            /\ f[2].pkg = f[1].pkg

\* C4: after a turn that fulfilled a complete request, whether the search
\* returned a package or None, the store has no entry for the session.
C4_FulfilledSessionIsEvicted ==
    (TurnEnded /\ SearchReturned /\ is_complete(turn.request[1]))
    => sessions[turn.sid] = None

\* C5: when the search returned no package for a complete request, the email
\* oracle was still called in that turn, with the request and no package.
C5_NoPackageStillEmails ==
    \A i \in 1..Len(turn.log) :
        (TurnEnded /\ turn.log[i].op = "search" /\ ~turn.log[i].raised
         /\ turn.log[i].pkg = None /\ is_complete(turn.log[i].req[1]))
        => \E j \in (i + 1)..Len(turn.log) :
              /\ turn.log[j].op = "email"
              /\ turn.log[j].req = turn.log[i].req
              /\ turn.log[j].pkg = None

\* C6: a bare email address sent to a session whose request has the trip but
\* no email never reaches the oracle; the turn sets user_email to the address,
\* searches, emails, and has deleted the session entry when it ends.
C6_BareEmailCompletesTheSession ==
    /\ (handler = "index" /\ turn.phase = "extract" /\ _is_email_only(turn.message))
       => ~(turn.current # None /\ HasTrip(turn.current[1])
            /\ turn.current[1].user_email = None)
    /\ (handler = "index" /\ ShortcutFired /\ HasTrip(turn.request[1]))
       => /\ ~Called("extract")
          /\ turn.request[1].user_email = Some(Text(strip(turn.message)))
          /\ Fulfilling
          /\ (TurnEnded /\ SearchReturned)
             => (Called("email") /\ sessions[turn.sid] = None)

\* C7: the bare-email branch is taken only for a request that lacks the email
\* and nothing else of origin, destination and departure date.
C7_ShortcutOnlyWhenOnlyEmailMissing ==
    ShortcutFired => HasTrip(turn.request[1])

\* C8: a turn whose oracle call fails leaves the session store as it was.
C8_FailedOracleLeavesStore ==
    [][(turn.phase = "extract" /\ turn'.oracle = "fail") => sessions' = sessions]_vars

\* C9: a turn whose oracle call fails ends at once with the generic re-prompt
\* as a question (a plain string in app.py): no error response, no exception,
\* no search and no email.
C9_FailedOracleReprompts ==
    turn.oracle = "fail" =>
        /\ TurnEnded
        /\ turn.resp[1].type = (IF handler = "app" THEN "text" ELSE "question")
        /\ turn.resp[1].message = Some(GenericReprompt)
        /\ turn.status = 200
        /\ Ops(turn.log) = <<"extract">>

\* a stored complete request, and the oracle fails on the next message
C9_Witness ==
    /\ turn.oracle = "fail" /\ TurnEnded
    /\ is_complete(turn.request[1])
    /\ sessions[turn.sid] = turn.request

\* C10: a search that raises on a complete request is handled like a search
\* that found nothing:
\* email called with an absent package, session deleted, and the turn ends
\* with a response, not with an error response or an exception.
C10_SearchFailureIsNoResults ==
    \A i \in 1..Len(turn.log) :
        (TurnEnded /\ turn.log[i].op = "search" /\ turn.log[i].raised
         /\ is_complete(turn.log[i].req[1]))
        => /\ \E j \in (i + 1)..Len(turn.log) :
                 turn.log[j].op = "email" /\ turn.log[j].pkg = None
           /\ Called("delete")
           /\ sessions[turn.sid] = None
           /\ turn.resp[1].type \notin {"error", "exception"}

\* the email call of the turn, if it made one
EmailCalls == {i \in 1..Len(turn.log) : turn.log[i].op = "email"}

\* the turn ended with the handler's terminal response
Terminal == TurnEnded /\ turn.resp[1].type \in {"complete", "success", "text"}

\* C11: when the email call of a fulfilling turn fails (an exception leaves
\* it, or no channel delivers), the turn still ends with the terminal
\* response and the session entry is deleted.
C11_EmailFailureDoesNotBlock ==
    \A i \in EmailCalls :
        (TurnEnded /\ (turn.log[i].raised \/ ~turn.log[i].delivered))
        => (Terminal /\ sessions[turn.sid] = None)

\* C12: when no channel delivered the email, the terminal response carries
\* email_sent = false; it carries true only when a channel delivered.
C12_EmailFlagReportsDelivery ==
    \A i \in EmailCalls :
        (TurnEnded /\ ~turn.log[i].raised /\ turn.resp[1].email_sent # None)
        => turn.resp[1].email_sent = Some(turn.log[i].delivered)

\* the Optional fields of a TravelRequest (passengers is an int, never None)
Fields == DOMAIN TravelRequest \ {"passengers"}

\* the thread's turn went get, oracle call, merge, put and ended by asking
MergedAndAsked(t) ==
    /\ t.phase = "idle" /\ t.resp # None /\ t.resp[1].type = "question"
    /\ t.oracle = "ok"

\* C13: when two requests for one session id have both gone through get,
\* oracle call, merge and put, the stored request has every field that
\* either of them merged in, whatever the interleaving.
C13_NoLostUpdate ==
    \A a \in Threads, b \in Threads :
        (a # b /\ MergedAndAsked(turn[a]) /\ MergedAndAsked(turn[b])
         /\ turn[a].sid = turn[b].sid)
        => /\ sessions[turn[a].sid] # None
           /\ \A f \in Fields :
                 turn[a].request[1][f] # None
                 => sessions[turn[a].sid][1][f] # None

\* C14: while a session's entry stays in the store, a field of its request
\* that is non-null stays non-null through every step of every turn, failed
\* oracle, search and email calls included.
C14_StoredFieldsStay ==
    [][\A id \in SessionIds :
          (sessions[id] # None /\ sessions'[id] # None)
          => \A f \in Fields :
                sessions[id][1][f] # None => sessions'[id][1][f] # None]_vars

\* a later turn on a stored complete request ended in a failed search, and
\* the entry is still there
C14_Witness ==
    /\ handler = "index" /\ TurnEnded /\ turn.resp[1].type = "error"
    /\ Called("extract")
    /\ \E i \in 1..Len(turn.log) : turn.log[i].op = "search" /\ turn.log[i].raised
    /\ sessions[turn.sid] # None /\ is_complete(sessions[turn.sid][1])

(***************************************************************************)
(* Properties of _update_request, is_complete and missing_fields, under    *)
(* SpecMerge                                                               *)
(***************************************************************************)
\* _update_request has returned
Merged == turn.phase = "merged"

\* C15: a field that is non-null in the request given to _update_request is
\* non-null in the request it returns; a null patch value erases nothing.
C15_MergeIsMonotonic ==
    Merged => \A f \in Fields :
                 turn.current[1][f] # None => turn.request[1][f] # None

\* a request with a departure date, updated with a patch without one
C15_Witness ==
    /\ Merged
    /\ turn.current[1].departure_date # None
    /\ turn.extracted_info.departure_date = None
    /\ turn.request[1].departure_date = turn.current[1].departure_date

\* C16: updating the returned request with the same patch again returns it
\* unchanged, derived return date and duration included.
C16_MergeIsIdempotent ==
    Merged => _update_request(turn.request[1], turn.extracted_info) = turn.request[1]

\* the patch gave departure date and duration, and the return date was derived
C16_Witness ==
    /\ Merged
    /\ turn.current[1].departure_date = None
    /\ turn.current[1].return_date = None
    /\ turn.extracted_info.return_date = None
    /\ TruthyNum(turn.extracted_info.duration_days)
    /\ turn.request[1].return_date # None

RequiredFields == <<"origin", "destination", "departure_date", "user_email">>

\* the required field has a value: a date, or a string that is not empty
Filled(r, f) ==
    IF f = "departure_date" THEN r[f] # None
    ELSE r[f] # None /\ r[f] # Some("")

\* C17 as claimed: is_complete() is true exactly when the four required
\* fields are non-null, empty strings included.
C17_CompleteIffNonNull ==
    Merged => (is_complete(turn.request[1])
               <=> \A i \in 1..Len(RequiredFields) :
                      turn.request[1][RequiredFields[i]] # None)

\* C17: is_complete() is true exactly when the four required fields are
\* non-null and not the empty string, and it does not depend on budget,
\* duration_days and return_date.
C17_CompleteIffFilled ==
    Merged =>
        /\ is_complete(turn.request[1])
           <=> \A i \in 1..Len(RequiredFields) :
                  Filled(turn.request[1], RequiredFields[i])
        /\ is_complete(turn.request[1])
           = is_complete([turn.request[1] EXCEPT !.budget = None,
                                                 !.duration_days = None,
                                                 !.return_date = None])

\* a request with an empty-string origin and the other three fields filled
C17_Witness ==
    /\ Merged
    /\ turn.request[1].origin = Some("")
    /\ TruthyStr(turn.request[1].destination)
    /\ TruthyDate(turn.request[1].departure_date)
    /\ TruthyStr(turn.request[1].user_email)

\* C18 as claimed: missing_fields() is the required fields that are null,
\* in the order origin, destination, departure_date, user_email, and it is
\* empty exactly when is_complete() is true.
C18_MissingAreTheNull ==
    Merged =>
        /\ missing_fields(turn.request[1])
           = SelectSeq(RequiredFields, LAMBDA f : turn.request[1][f] = None)
        /\ missing_fields(turn.request[1]) = <<>> <=> is_complete(turn.request[1])

\* C18: missing_fields() is the required fields that are null or the empty
\* string, in the order origin, destination, departure_date, user_email,
\* and it is empty exactly when is_complete() is true.
C18_MissingAreTheUnfilled ==
    Merged =>
        /\ missing_fields(turn.request[1])
           = SelectSeq(RequiredFields, LAMBDA f : ~Filled(turn.request[1], f))
        /\ missing_fields(turn.request[1]) = <<>> <=> is_complete(turn.request[1])

\* a request with an empty-string origin, a destination, and no email
C18_Witness ==
    /\ Merged
    /\ turn.request[1].origin = Some("")
    /\ TruthyStr(turn.request[1].destination)
    /\ turn.request[1].user_email = None

\* C19: when, after the patch is applied, departure date and duration are
\* known (duration 0 or more) and the return date is null, the returned
\* request has return date = departure date + duration.
C19_ReturnDateIsDerived ==
    Merged =>
        LET u == ApplyPatch(turn.current[1], turn.extracted_info)
        IN  (/\ u.departure_date # None
             /\ u.duration_days # None /\ u.duration_days[1] >= 0
             /\ u.return_date = None)
            => turn.request[1].return_date
               = Some(u.departure_date[1] + u.duration_days[1])

\* C20: when, after the patch is applied, departure and return date are
\* known and the duration is null, the returned request has duration =
\* return date - departure date, or a null duration when the return date is
\* before the departure date; no stored request has a negative duration.
C20_DurationIsDerivedAndValid ==
    Merged =>
        LET u == ApplyPatch(turn.current[1], turn.extracted_info)
        IN  /\ (/\ u.departure_date # None /\ u.return_date # None
                /\ u.duration_days = None)
               => turn.request[1].duration_days
                  = (IF u.return_date[1] >= u.departure_date[1]
                     THEN Some(u.return_date[1] - u.departure_date[1])
                     ELSE None)
            /\ sessions[DemoUser][1].duration_days # None
               => sessions[DemoUser][1].duration_days[1] >= 0

\* C21: every request that _update_request returns, and so every stored
\* request, has passengers >= 1, whatever passenger count the patch carries.
C21_PassengersAtLeastOne ==
    /\ sessions[DemoUser][1].passengers >= 1
    /\ Merged => turn.request[1].passengers >= 1

\* C23: for a request with all four required fields, the question of
\* generate_follow_up_question is about the return timing when neither
\* return date nor duration is known, else about the passenger count when
\* it is still the default, else about the budget when there is none.
C23_OptionalQuestionOrder ==
    (Merged /\ is_complete(turn.request[1])) =>
        LET r == turn.request[1]
            q == generate_follow_up_question(r)
        IN  IF r.return_date = None /\ r.duration_days = None
            THEN q = "How long would you like to stay? (e.g., '3 days' or 'return on Friday')"
            ELSE IF r.passengers = 1
            THEN q = "How many travelers will there be?"
            ELSE IF r.budget = None
            THEN q = "Do you have a budget in mind for this trip?"
            ELSE q = "Is there anything else you'd like to specify for your trip?"

C29_DerivationKeepsPresentFields ==
    Merged =>
        LET u == ApplyPatch(turn.current[1], turn.extracted_info)
            r == turn.request[1]
        IN  /\ u.duration_days # None => r.duration_days = u.duration_days
            /\ u.return_date # None => r.return_date = u.return_date
            /\ ~(r.duration_days # u.duration_days /\ r.return_date # u.return_date)

\* C30: in every request _update_request returns, a departure date, return
\* date and duration that are all non-null agree: return date = departure
\* date + duration.
C30_DatesAgree ==
    Merged =>
        LET r == turn.request[1]
        IN  (r.departure_date # None /\ r.return_date # None /\ r.duration_days # None)
            => r.return_date = Some(r.departure_date[1] + r.duration_days[1])

(***************************************************************************)
(* Properties of the responses, under Spec                                 *)
(***************************************************************************)
\* the texts that ask for a required field
AsksFor(f) ==
    IF f = "origin" THEN {"Where would you like to travel from?"}
    ELSE IF f = "destination" THEN {"Where would you like to go?"}
    ELSE IF f = "departure_date" THEN {"When would you like to depart?"}
    ELSE {"What's your email address so I can send you the booking details?",
          "Great! I have all the details I need. What's your email address so I can send you the travel package?"}

\* C22: a turn whose oracle call answered and that did not go into
\* fulfilment ends with a non-empty question: the oracle's own, or else the
\* one for the first missing required field in the order origin,
\* destination, departure date, email.
C22_FollowUpQuestion ==
    (TurnEnded /\ OracleAnswered /\ ~Called("search")) =>
        /\ turn.resp[1].message # None
        /\ turn.resp[1].message # Some("")
        /\ \/ turn.resp[1].message = Some("oracle question")
           \/ missing_fields(turn.request[1]) = <<>>
           \/ turn.resp[1].message[1] \in AsksFor(missing_fields(turn.request[1])[1])

\* C24: a chat request whose message is empty after trimming is answered
\* at once with a bad-request response (400): no oracle call, no turn.
C24_EmptyMessageIsBadRequest ==
    (turn.message # <<>> /\ strip(turn.message) = <<>>) =>
        /\ turn.phase = "idle"
        /\ turn.status = 400
        /\ turn.log = <<>>

\* the search of the turn returned a package / returned none
SearchFound ==
    \E i \in 1..Len(turn.log) :
        turn.log[i].op = "search" /\ ~turn.log[i].raised /\ turn.log[i].pkg # None

SearchFoundNone ==
    \E i \in 1..Len(turn.log) :
        turn.log[i].op = "search" /\ ~turn.log[i].raised /\ turn.log[i].pkg = None

\* a chat turn of main.py or api/index.py has returned a response
Answered ==
    /\ handler \in {"main", "index"} /\ TurnEnded
    /\ turn.resp[1].type \notin {"cleared", "exception"}

\* C25: the type of every response is question, success, no_results or
\* error: question when the turn did not search, success with package and
\* email flag when the search found a package, no_results when it found none.
C25_ResponseTypes ==
    Answered =>
        /\ turn.resp[1].type \in {"question", "success", "no_results", "error"}
        /\ ~Called("search") /\ turn.resp[1].type # "error"
           => turn.resp[1].type = "question"
        /\ SearchFound /\ turn.resp[1].type # "error"
           => /\ turn.resp[1].type = "success"
              /\ turn.resp[1].package # None
              /\ turn.resp[1].email_sent # None
        /\ SearchFoundNone /\ turn.resp[1].type # "error"
           => turn.resp[1].type = "no_results"

\* C26: the response to a chat request carries one session id, the one
\* under which the turn read and wrote the store, in its envelope and, when
\* the response has one of its own, there too.
C26_ResponseCarriesSessionId ==
    (handler \in {"main", "index"} /\ TurnEnded
     /\ turn.resp[1].type # "cleared" /\ strip(turn.message) # <<>>) =>
        /\ turn.envelope = Some(turn.sid)
        /\ turn.resp[1].session_id # None
           => turn.resp[1].session_id = turn.envelope

\* C28: a clear removes the entry of its session id and nothing else, and
\* on an id without entry it changes nothing.
C28_ClearRemovesOneEntry ==
    [][(turn'.resp # None /\ turn'.resp[1].type = "cleared") =>
          /\ sessions'[turn'.sid] = None
          /\ \A id \in SessionIds \ {turn'.sid} : sessions'[id] = sessions[id]
          /\ sessions[turn'.sid] = None => sessions' = sessions]_vars

\* one session was cleared and the other one still has its request
C28_Witness ==
    /\ turn.resp # None /\ turn.resp[1].type = "cleared"
    /\ sessions[turn.sid] = None
    /\ \E id \in SessionIds : sessions[id] # None /\ HasTrip(sessions[id][1])

AskStep ==
    /\ turn.phase = "extract"
    /\ turn'.oracle = "ok" /\ turn'.phase = "idle" /\ turn'.sid = turn.sid

\* the request the oracle's patch is merged into
BaseRequest == IF turn.current = None THEN TravelRequest ELSE turn.current[1]

\* C32 as stated: after a turn whose oracle call succeeds and which does not
\* fulfil, the store holds under the turn's session id exactly the merged
\* request; a first message on an unknown id creates the entry and an
\* all-null patch leaves an existing entry equal to what it was.
C32_StoreHoldsMerged ==
    [][AskStep =>
          /\ sessions'[turn.sid] =
                 Some(_update_request(BaseRequest, turn'.extracted_info))
          /\ (turn'.extracted_info = NullPatch /\ sessions[turn.sid] # None)
             => sessions'[turn.sid] = sessions[turn.sid]]_vars

\* the merged request as main.py and app.py store it: with the address of
\* the logged-in customer when the merged request has no email
WithLoginEmail(r) ==
    IF handler \in {"main", "app"} /\ login # None /\ ~TruthyStr(r.user_email)
    THEN [r EXCEPT !.user_email = login]
    ELSE r

\* C32 amended: after such a turn the store holds under the turn's session
\* id the merged request, with user_email set to the logged-in customer's
\* address when main.py or app.py has a customer logged in and the merged
\* request has no email; a first message on an unknown id creates the entry
\* and an all-null patch leaves an existing entry equal to what it was apart
\* from that email.
C32_StoreHoldsMergedWithLogin ==
    [][AskStep =>
          /\ sessions'[turn.sid] =
                 Some(WithLoginEmail(_update_request(BaseRequest,
                                                     turn'.extracted_info)))
          /\ (turn'.extracted_info = NullPatch /\ sessions[turn.sid] # None)
             => sessions'[turn.sid] = Some(WithLoginEmail(sessions[turn.sid][1]))]_vars

\* a patch with the origin alone, answered by a question while a customer
\* is logged in: the entry holds the origin and the customer's address
C32_Witness ==
    /\ TurnEnded /\ turn.oracle = "ok" /\ ~Called("search")
    /\ turn.extracted_info = [NullPatch EXCEPT !.origin = Some("Porto")]
    /\ handler = "main" /\ login # None
    /\ sessions[turn.sid] =
          Some([TravelRequest EXCEPT !.origin = Some("Porto"), !.user_email = login])

\* C33: a step of a turn for one session id, whatever the turn's outcome,
\* leaves the entry of every other session id as it was: it changes, creates
\* and deletes no entry but its own.
C33_OtherSessionsUntouched ==
    [][\A id \in SessionIds :
          id # turn'.sid => sessions'[id] = sessions[id]]_vars

\* a turn that fulfilled and deleted its own entry while another session
\* still has its request
C33_Witness ==
    /\ TurnEnded /\ Called("delete")
    /\ sessions[turn.sid] = None
    /\ \E id \in SessionIds \ {turn.sid} :
          sessions[id] # None /\ sessions[id][1].origin = Some("Porto")

\* the oracle answered with is_complete true, the merged request has origin,
\* destination and departure date, and it has no user email
CompleteButNoEmail ==
    /\ TurnEnded /\ OracleAnswered /\ turn.flag
    /\ HasTrip(turn.request[1])
    /\ ~TruthyStr(turn.request[1].user_email)

C35_ShortcutSetsOnlyEmail ==
    [][(turn.phase = "idle" /\ turn'.phase = "search" /\ turn'.oracle = "skipped") =>
          /\ sessions[turn'.sid] # None
          /\ \A f \in DOMAIN TravelRequest \ {"user_email"} :
                turn'.request[1][f] = sessions[turn'.sid][1][f]
          /\ turn'.request[1].user_email = Some(Text(strip(turn'.message)))
          /\ Text(strip(turn'.message)) = "a@b.com"]_vars

\* the branch fired on a stored request with origin, destination and
\* departure date, and the search was called with them and the address
C35_Witness ==
    /\ ShortcutFired /\ Called("search")
    /\ \E i \in 1..Len(turn.log) :
          /\ turn.log[i].op = "search"
          /\ HasTrip(turn.log[i].req[1])
          /\ turn.log[i].req[1].user_email = Some("a@b.com")

(***************************************************************************)
(* Progress of a conversation, under SpecLive                              *)
(***************************************************************************)
\* the turn called the search and ended with the handler's result response
Fulfilled ==
    /\ TurnEnded /\ Called("search")
    /\ turn.resp[1].type \in {"success", "no_results", "complete", "text"}

\* C36: with an oracle that never fails and whose is_complete is
\* is_complete() of the merged request, and replies that each supply the
\* field asked for, some turn calls the search and ends with a result
\* response (package found or not found): the questions do not go on forever.
C36_EventuallyFulfils == <>Fulfilled

(***************************************************************************)
(* main.py against api/index.py, under SpecPair                            *)
(***************************************************************************)
\* the handler's turn called op
CalledBy(h, op) == \E i \in 1..Len(turn[h].log) : turn[h].log[i].op = op

\* C37: given the same messages and the same oracle outputs, main.py and
\* api/index.py decide alike in every turn (ask or fulfil), call search and
\* email in the same turns, and leave equal session stores.
C37_VariantsAgree ==
    (turn.main.phase = "idle" /\ turn.index.phase = "idle") =>
        /\ CalledBy("main", "search") = CalledBy("index", "search")
        /\ CalledBy("main", "email") = CalledBy("index", "email")
        /\ sessions.main = sessions.index

(***************************************************************************)
(* The budget and the price of the package, under SpecSearch              *)
(***************************************************************************)
\* C38: when the request carries a budget and search_best_package returns a
\* package, the package's total price (flight plus accommodation, nights =
\* duration_days or 3) is at most the budget, with mock data and with a
\* live flight offer alike; a budget below 100 yields no package.
C38_PackageWithinBudget ==
    LET request == sessions[DemoUser][1]
    IN  (turn.phase = "searched" /\ request.budget # None) =>
            /\ turn.package # None
               => turn.package[1].total_price <= Cents(request.budget[1])
            /\ request.budget[1] < MinBudget => turn.package = None

====
